---- MODULE Spec2Model ----
(***************************************************************************)
(* Model of src/tools/distillation.py: DistillationBox and                 *)
(* MultiStagesDistillationBox, the forward hooks they register on the      *)
(* teacher and student networks, and the per-module capture records.       *)
(*                                                                         *)
(* A network is a chain of named sub-modules executed in ModuleOrder.      *)
(* torch's forward-hook mechanism is modelled by what it does: the hooks   *)
(* of a module fire in registration order once the module has produced     *)
(* its output, an exception raised by a hook aborts the rest of that       *)
(* network's forward, and RemovableHandle.remove() deletes the hook if it  *)
(* is still registered.                                                    *)
(***************************************************************************)
EXTENDS Integers, Sequences, FiniteSets, TLC

\* ------------------------------------------------------------------ bounds
MaxEpoch == 2
MaxStageNumber == 3
MaxHeads == 2

\* ------------------------------------------------- the networks, as given
VARIABLES
    teacher_model,          \* class of self.teacher_model: the network or a wrapper of it
    student_model,          \* class of self.student_model
    branching               \* the networks have a data-dependent branch

\* ------------------------------------------------------ the two networks
Nets == {"teacher", "student"}
ModuleOrder == <<"layer1", "layer2">>
Modules == {ModuleOrder[i] : i \in DOMAIN ModuleOrder}
BadPath == "nolayer"
Batches == {"b1", "b2"}

\* tensors: the output of sub-module m of network n on a batch (head 0), the
\* i-th head of a network's return value, and Python's None
ModuleOutput(n, m, batch) == [net |-> n, module |-> m, batch |-> batch, head |-> 0]
HeadOutput(n, batch, i) == [net |-> n, module |-> "out", batch |-> batch, head |-> i]
NoneTensor == [net |-> "None", module |-> "None", batch |-> "None", head |-> 0]

\* a sub-module without a distillation_box attribute
NoInfo == [present |-> FALSE, loss_name |-> "", path_from_root |-> "",
           is_teacher |-> FALSE, has_output |-> FALSE, output |-> NoneTensor]

\* a model is the network itself or a parallel-execution wrapper holding the
\* network as its only child, .module
ModelClasses == {"Module", "DataParallel", "DistributedDataParallel"}

\* teacher_model.module if isinstance(teacher_model, DataParallel) else teacher_model:
\* the class of the root the teacher paths are resolved against
teacher_model_without_dp ==
    IF teacher_model = "DataParallel" THEN "Module" ELSE teacher_model

\* student_model.module if isinstance(student_model, DistributedDataParallel)
\* else student_model
student_model_without_ddp ==
    IF student_model = "DistributedDataParallel" THEN "Module" ELSE student_model

RootOf(n) == IF n = "teacher" THEN teacher_model_without_dp ELSE student_model_without_ddp

\* module_util.get_module(root, path): the sub-module, or failure; a wrapper
\* has no child of the network's names
CanResolve(n, path) == RootOf(n) = "Module" /\ path \in Modules
get_module(n, path) == path

\* ------------------------------------------------- module-level functions
\* faulty variant: a record already on the module is kept
set_distillation_box_info_keep(info, n, m, loss_name, path, is_teacher) ==
    IF info[n][m].present THEN info
    ELSE [info EXCEPT ![n][m] = [present |-> TRUE, loss_name |-> loss_name,
                                 path_from_root |-> path, is_teacher |-> is_teacher,
                                 has_output |-> FALSE, output |-> NoneTensor]]

\* set_distillation_box_info(module, **kwargs): replaces the whole record
set_distillation_box_info(info, n, m, loss_name, path, is_teacher) ==
    [info EXCEPT ![n][m] = [present |-> TRUE, loss_name |-> loss_name,
                            path_from_root |-> path, is_teacher |-> is_teacher,
                            has_output |-> FALSE, output |-> NoneTensor]]

get_distillation_box_info(info, n, m) == info[n][m]

\* extract_output_hook: store the output, return normally
extract_output_hook(rec, out) ==
    [rec |-> [rec EXCEPT !.has_output = TRUE, !.output = out], raised |-> FALSE]

\* faulty variant: a terminating hook that stores the output but does not raise
forward_termination_hook_noraise(rec, out) ==
    [rec |-> [rec EXCEPT !.has_output = TRUE, !.output = out], raised |-> FALSE]

\* forward_termination_hook: store the output, raise ForwardTerminationException
forward_termination_hook(rec, out) ==
    [rec |-> [rec EXCEPT !.has_output = TRUE, !.output = out], raised |-> TRUE]

\* a registered hook is identified by the handle returned at registration
Handle(n, m, gen, idx) == [net |-> n, module |-> m, gen |-> gen, idx |-> idx]

register_forward_hook(hooks, n, m, gen, idx, end) ==
    [hooks EXCEPT ![n][m] = Append(@, [gen |-> gen, idx |-> idx, end |-> end])]

\* RemovableHandle.remove(): delete the hook if it is still registered
RemoveHandle(hooks, h) ==
    [hooks EXCEPT ![h.net][h.module] =
        SelectSeq(@, LAMBDA k : ~(k.gen = h.gen /\ k.idx = h.idx))]

\* faulty variant: only the teacher handle of every pair is removed
RECURSIVE RemoveHandlesTeacherOnly(_, _, _)
RemoveHandlesTeacherOnly(hooks, handles, i) ==
    IF i > Len(handles) THEN hooks
    ELSE RemoveHandlesTeacherOnly(RemoveHandle(hooks, handles[i][1]), handles, i + 1)

\* for teacher_handle, student_handle in self.target_module_handles: remove both
RECURSIVE RemoveHandles(_, _, _)
RemoveHandles(hooks, handles, i) ==
    IF i > Len(handles) THEN hooks
    ELSE RemoveHandles(RemoveHandle(RemoveHandle(hooks, handles[i][1]), handles[i][2]),
                       handles, i + 1)

\* ------------------------------------------------------- DistillationBox.setup
\* get_single_loss(org_criterion_config): the loss object named by the config
get_single_loss(org_term) == org_term

\* the loop over sub_terms_config.items(), from entry i on; st carries the
\* coordinator fields and the two networks, st.status the raised exception
RECURSIVE SetupEntries(_, _, _, _)
SetupEntries(st, entries, i, gen) ==
    IF i > Len(entries) THEN st
    ELSE
      LET e == entries[i]
          st1 == [st EXCEPT !.target_module_pairs = Append(@, <<e.tpath, e.spath>>)]
      IN  IF ~CanResolve("teacher", e.tpath) \/ ~CanResolve("student", e.spath)
          THEN [st1 EXCEPT !.status = "PathResolutionError"]
          ELSE
            LET tm == get_module("teacher", e.tpath)
                sm == get_module("student", e.spath)
                info1 == set_distillation_box_info(st1.info, "teacher", tm,
                                                   e.loss_name, e.tpath, TRUE)
                info2 == set_distillation_box_info(info1, "student", sm,
                                                   e.loss_name, e.spath, FALSE)
                hooks1 == register_forward_hook(st1.hooks, "teacher", tm, gen, i, e.end)
                hooks2 == register_forward_hook(hooks1, "student", sm, gen, i, e.end)
                st2 == [st1 EXCEPT
                          !.info = info2,
                          !.hooks = hooks2,
                          !.target_module_handles =
                              Append(@, <<Handle("teacher", tm, gen, i),
                                          Handle("student", sm, gen, i)>>)]
            IN  SetupEntries(st2, entries, i + 1, gen)

\* lines 53-59 of setup, reached when the loop raised nothing: org_criterion
\* is assigned only under the if of line 55
SetupLosses(st1, criterion_config) ==
    IF st1.status # "ok" THEN st1
    ELSE [st1 EXCEPT
            !.org_criterion = IF criterion_config.org_term # "None"
                              THEN get_single_loss(criterion_config.org_term)
                              ELSE @,
            !.criterion = criterion_config,
            !.use_teacher_output =
                (IF criterion_config.org_term # "None"
                 THEN get_single_loss(criterion_config.org_term)
                 ELSE st1.org_criterion) = "KDLoss"]

setup(st, criterion_config, gen) ==
    SetupLosses(SetupEntries([st EXCEPT !.target_module_pairs = <<>>,
                                        !.target_module_handles = <<>>],
                             criterion_config.sub_terms, 1, gen),
                criterion_config)

\* ------------------------------------------------ one network invocation
\* Module.__call__: the module's hooks fire in registration order on its
\* output; a raising hook ends the call
RECURSIVE RunHooks(_, _, _, _)
RunHooks(rec, hks, i, out) ==
    IF i > Len(hks) THEN [rec |-> rec, raised |-> FALSE]
    ELSE
      LET r == IF hks[i].end THEN forward_termination_hook(rec, out)
               ELSE extract_output_hook(rec, out)
      IN  IF r.raised THEN r ELSE RunHooks(r.rec, hks, i + 1, out)

\* the sub-modules of network n run in ModuleOrder from position i on; r is
\* the outcome of the hooks of the sub-module at position i
\* skipped: the sub-modules the network's branch leaves out in this call
RECURSIVE RunModules(_, _, _, _, _, _, _)
AfterHooks(n, batch, hks, info, i, executed, skipped, r) ==
    IF r.raised
    THEN [info |-> [info EXCEPT ![n][ModuleOrder[i]] = r.rec],
          executed |-> Append(executed, ModuleOrder[i]), terminated |-> TRUE]
    ELSE RunModules(n, batch, hks, [info EXCEPT ![n][ModuleOrder[i]] = r.rec],
                    i + 1, Append(executed, ModuleOrder[i]), skipped)

RunModules(n, batch, hks, info, i, executed, skipped) ==
    IF i > Len(ModuleOrder)
    THEN [info |-> info, executed |-> executed, terminated |-> FALSE]
    ELSE IF ModuleOrder[i] \in skipped
    THEN RunModules(n, batch, hks, info, i + 1, executed, skipped)
    ELSE AfterHooks(n, batch, hks, info, i, executed, skipped,
                    RunHooks(info[n][ModuleOrder[i]], hks[n][ModuleOrder[i]], 1,
                             ModuleOutput(n, ModuleOrder[i], batch)))

\* the value a network returns when its forward completes: one tensor
\* (heads = 0) or a tuple of per-head tensors (auxiliary classifiers)
NetOutput(n, batch, heads) ==
    IF heads = 0
    THEN [kind |-> "tensor", val |-> <<HeadOutput(n, batch, 0)>>]
    ELSE [kind |-> "list", val |-> [i \in 1..heads |-> HeadOutput(n, batch, i - 1)]]
NoneOutput == [kind |-> "None", val |-> <<>>]

\* what the caller of a network sees: the value returned, or nothing when a
\* hook raised
CallOutcome(r, n, batch, heads) ==
    [called |-> TRUE, info |-> r.info, executed |-> r.executed,
     terminated |-> r.terminated,
     raw |-> IF r.terminated THEN NoneOutput ELSE NetOutput(n, batch, heads)]

\* self.teacher_model(sample_batch) / self.student_model(sample_batch)
CallModel(n, batch, heads, hks, info, skipped) ==
    CallOutcome(RunModules(n, batch, hks, info, 1, <<>>, skipped), n, batch, heads)

\* the branches a call can take: every sub-module runs, or (in a network with
\* a data-dependent branch) one sub-module of one network is left out
NoSkip == [n \in Nets |-> {}]
Branches == {NoSkip} \cup
            (IF branching
             THEN {[n \in Nets |-> IF n = n0 THEN {m0} ELSE {}] : n0 \in Nets, m0 \in Modules}
             ELSE {})

\* ------------------------------------------------ original-task loss terms
Min(a, b) == IF a <= b THEN a ELSE b
Zip(s, t) == [i \in 1..Min(Len(s), Len(t)) |-> <<s[i], t[i]>>]
Enumerate(s) == [i \in 1..Len(s) |-> <<i - 1, s[i]>>]

\* a dict as the sequence of its (key, value) items; d[key] = val
DictSet(d, key, val) ==
    IF \E i \in 1..Len(d) : d[i].key = key
    THEN [i \in 1..Len(d) |-> IF d[i].key = key THEN [key |-> key, val |-> val] ELSE d[i]]
    ELSE Append(d, [key |-> key, val |-> val])
DictKeys(d) == {d[i].key : i \in 1..Len(d)}
DictGet(d, key) == d[CHOOSE i \in 1..Len(d) : d[i].key = key].val

\* for i, sub_student_outputs, sub_teacher_outputs in enumerate(zip(...)):
\* every item of enumerate is unpacked into the three loop variables
RECURSIVE OrgLossPairs(_, _, _)
OrgLossPairs(items, i, d) ==
    IF i > Len(items) THEN [status |-> "ok", dict |-> d]
    ELSE IF Len(items[i]) # 3 THEN [status |-> "ValueError", dict |-> d]
    ELSE OrgLossPairs(items, i + 1,
                      DictSet(d, items[i][1], <<items[i][2], items[i][3]>>))

\* for i, sub_outputs in enumerate(student_outputs)
RECURSIVE OrgLossSingles(_, _, _)
OrgLossSingles(items, i, d) ==
    IF i > Len(items) THEN [status |-> "ok", dict |-> d]
    ELSE IF Len(items[i]) # 2 THEN [status |-> "ValueError", dict |-> d]
    ELSE OrgLossSingles(items, i + 1, DictSet(d, items[i][1], <<items[i][2]>>))

\* the argument of org_criterion for a raw output that is one value
AsArg(raw) == IF raw.kind = "tensor" THEN raw.val[1] ELSE NoneTensor

\* DistillationBox.forward, lines 75-88; a loss term is recorded as the
\* tuple of network outputs org_criterion was called with
OrgLoss(student_outputs, teacher_outputs, org_criterion, use_teacher_output) ==
    IF org_criterion = "None" THEN [status |-> "ok", dict |-> <<>>]
    ELSE IF student_outputs.kind = "list"
    THEN IF use_teacher_output
         THEN IF teacher_outputs.kind = "None"
              THEN [status |-> "TypeError", dict |-> <<>>]
              ELSE OrgLossPairs(Enumerate(Zip(student_outputs.val, teacher_outputs.val)),
                                1, <<>>)
         ELSE OrgLossSingles(Enumerate(student_outputs.val), 1, <<>>)
    ELSE [status |-> "ok",
          dict |-> <<[key |-> 0,
                      val |-> IF use_teacher_output
                              THEN <<AsArg(student_outputs), AsArg(teacher_outputs)>>
                              ELSE <<AsArg(student_outputs)>>]>>]

\* ---------------------------------------------- collecting captured pairs
\* dict.pop('output')
PopOutput(info, n, m) == [info EXCEPT ![n][m].has_output = FALSE, ![n][m].output = NoneTensor]

\* for teacher_path, student_path in self.target_module_pairs (lines 95-99);
\* takes logs every pop('output') that was attempted
RECURSIVE CollectOutputs(_, _, _, _, _)
CollectOutputs(info, pairs, i, output_dict, takes) ==
    IF i > Len(pairs)
    THEN [status |-> "ok", info |-> info, output_dict |-> output_dict, takes |-> takes]
    ELSE
      LET tpath == pairs[i][1]
          spath == pairs[i][2]
          fail(err, inf, tk) ==
              [status |-> err, info |-> inf, output_dict |-> output_dict, takes |-> tk]
      IN  IF ~CanResolve("teacher", tpath) THEN fail("PathResolutionError", info, takes)
          ELSE IF ~get_distillation_box_info(info, "teacher", get_module("teacher", tpath)).present
          THEN fail("MissingCaptureError", info, takes)
          ELSE IF ~CanResolve("student", spath) THEN fail("PathResolutionError", info, takes)
          ELSE IF ~get_distillation_box_info(info, "student", get_module("student", spath)).present
          THEN fail("MissingCaptureError", info, takes)
          ELSE
            LET tm == get_module("teacher", tpath)
                sm == get_module("student", spath)
                teacher_dict == get_distillation_box_info(info, "teacher", tm)
                student_dict == get_distillation_box_info(info, "student", sm)
                ttake(ok) == [idx |-> i, net |-> "teacher", path |-> tpath, ok |-> ok]
                stake(ok) == [idx |-> i, net |-> "student", path |-> spath, ok |-> ok]
            IN  IF ~teacher_dict.has_output
                THEN fail("OutputNotReadyError", info, Append(takes, ttake(FALSE)))
                ELSE IF ~student_dict.has_output
                THEN fail("OutputNotReadyError", PopOutput(info, "teacher", tm),
                          Append(Append(takes, ttake(TRUE)), stake(FALSE)))
                ELSE CollectOutputs(
                       PopOutput(PopOutput(info, "teacher", tm), "student", sm),
                       pairs, i + 1,
                       DictSet(output_dict, teacher_dict.loss_name,
                               <<<<teacher_dict.path_from_root, teacher_dict.output>>,
                                 <<student_dict.path_from_root, student_dict.output>>>>),
                       Append(Append(takes, ttake(TRUE)), stake(TRUE)))

\* MultiStagesDistillationBox.forward, lines 136-150: the isinstance tests
\* against ForwardTerminationException are true of every value sub_forward
\* returns, so only check_if_org_loss_required() decides
ms_OrgLoss(student_outputs, teacher_outputs, org_criterion, use_teacher_output) ==
    IF org_criterion = "None" THEN [status |-> "ok", dict |-> <<>>]
    ELSE IF student_outputs.kind = "list"
    THEN IF use_teacher_output
         THEN IF teacher_outputs.kind = "None"
              THEN [status |-> "TypeError", dict |-> <<>>]
              ELSE OrgLossPairs(Enumerate(Zip(student_outputs.val, teacher_outputs.val)),
                                1, <<>>)
         ELSE OrgLossSingles(Enumerate(student_outputs.val), 1, <<>>)
    ELSE IF student_outputs.kind # "None"
    THEN [status |-> "ok",
          dict |-> <<[key |-> 0,
                      val |-> IF use_teacher_output
                              THEN <<AsArg(student_outputs), AsArg(teacher_outputs)>>
                              ELSE <<AsArg(student_outputs)>>]>>]
    ELSE [status |-> "ok", dict |-> <<>>]

\* ------------------------------------------------------------ configurations
LossNames == <<"l1", "l2">>
OrgTerms == {"None", "CrossEntropyLoss", "KDLoss"}
EndEpochs == {1, 2}
\* a sub_terms entry named LossNames[k]: both paths resolve, or the teacher
\* path does not
Entries(k) == [loss_name : {LossNames[k]}, tpath : Modules, spath : Modules,
               end : BOOLEAN]
                 \cup [loss_name : {LossNames[k]}, tpath : {BadPath},
                       spath : {ModuleOrder[1]}, end : {FALSE}]
\* the criterion configs given to a DistillationBox: up to two sub_terms
BoxSubTerms == {<<>>} \cup {<<e>> : e \in Entries(1)}
                 \cup {<<e1, e2>> : e1 \in Entries(1), e2 \in Entries(2)}
BoxConfigs == [sub_terms : BoxSubTerms, org_term : OrgTerms]
\* the config of stage k of a stage table: at most one sub_term, LossNames[k]
StageConfigs(k) == [criterion : [sub_terms : {<<>>} \cup {<<e>> : e \in Entries(k)},
                                 org_term : OrgTerms],
                    end_epoch : EndEpochs]
\* the stage tables given to a MultiStagesDistillationBox: stage1, or stage1 and stage2
StageTables == {<<s1>> : s1 \in StageConfigs(1)}
                 \cup {<<s1, s2>> : s1 \in StageConfigs(1), s2 \in StageConfigs(2)}
\* the configs with one sub_term at most
WrappedConfigs == {cfg \in BoxConfigs : Len(cfg.sub_terms) <= 1}
\* the stage tables of one stage
OneStageTables == {t \in StageTables : Len(t) = 1}
\* stage tables whose stages have up to two sub_terms (non-terminal, no org_term)
TwoTermsConfigs == {[criterion |-> [sub_terms |-> st, org_term |-> "None"],
                     end_epoch |-> 1] :
                       st \in {t \in BoxSubTerms : \A i \in 1..Len(t) : ~t[i].end}}
TwoTermsTables == {<<s1>> : s1 \in TwoTermsConfigs}
                    \cup {<<s1, s2>> : s1 \in TwoTermsConfigs, s2 \in TwoTermsConfigs}
\* the networks return one tensor, or a tuple of MaxHeads tensors
HeadCounts == {0, MaxHeads}

\* ------------------------------------------------------------------- state
VARIABLES
    box_type,               \* which class get_distillation_box built
    constructed,            \* FALSE when __init__ raised
    criterion_config,       \* the stage table (MultiStagesDistillationBox)
    stage_number, stage_end_epoch,
    target_module_pairs, target_module_handles,
    org_criterion, criterion, use_teacher_output,
    hooks,                  \* per network and sub-module: registered forward hooks
    distillation_box,       \* per network and sub-module: module.__dict__['distillation_box']
    last                    \* the last call on the box: arguments, outcome, observations

vars == <<teacher_model, student_model, branching,
          box_type, constructed, criterion_config, stage_number, stage_end_epoch,
          target_module_pairs, target_module_handles, org_criterion, criterion,
          use_teacher_output, hooks, distillation_box, last>>

EmptyHooks == [n \in Nets |-> [m \in Modules |-> <<>>]]
EmptyInfo == [n \in Nets |-> [m \in Modules |-> NoInfo]]
NoCriterion == [sub_terms |-> <<>>, org_term |-> "unset"]

\* the observation record of a call that has not (yet) done anything
Obs(op) ==
    [op |-> op, status |-> "ok", batch |-> "None", heads |-> 0, epoch |-> 0,
     advanced |-> FALSE,
     called |-> [n \in Nets |-> FALSE],
     terminated |-> [n \in Nets |-> FALSE],
     executed |-> [n \in Nets |-> <<>>],
     after_run |-> EmptyInfo,
     takes |-> <<>>,
     hooks_before_setup |-> EmptyHooks,
     org_calls |-> <<>>,
     returned |-> FALSE, output_dict |-> <<>>, org_loss_dict |-> <<>>]

\* DistillationBox.__init__ up to the call of setup
NewBox == [target_module_pairs |-> <<>>, target_module_handles |-> <<>>,
           org_criterion |-> "None", criterion |-> NoCriterion,
           use_teacher_output |-> FALSE,
           hooks |-> EmptyHooks, info |-> EmptyInfo, status |-> "ok"]

\* the coordinator fields and the networks, as setup takes and returns them
BoxState == [target_module_pairs |-> target_module_pairs,
             target_module_handles |-> target_module_handles,
             org_criterion |-> org_criterion, criterion |-> criterion,
             use_teacher_output |-> use_teacher_output,
             hooks |-> hooks, info |-> distillation_box, status |-> "ok"]

InitFrom(st) ==
    /\ constructed = (st.status = "ok")
    /\ target_module_pairs = st.target_module_pairs
    /\ target_module_handles = st.target_module_handles
    /\ org_criterion = st.org_criterion
    /\ criterion = st.criterion
    /\ use_teacher_output = st.use_teacher_output
    /\ hooks = st.hooks
    /\ distillation_box = st.info
    /\ last = [Obs("__init__") EXCEPT !.status = st.status]

\* the networks the box is given: their classes, and whether they branch
Networks(tm, sm, br) ==
    /\ teacher_model \in tm
    /\ student_model \in sm
    /\ branching \in br

\* DistillationBox(teacher_model, student_model, criterion_config)
NewDistillationBox(configs) ==
    /\ box_type = "DistillationBox"
    /\ criterion_config = <<>>
    /\ stage_number = 0
    /\ stage_end_epoch = 0
    /\ \E cfg \in configs : InitFrom(setup(NewBox, cfg, 1))

\* MultiStagesDistillationBox(teacher_model, student_model, criterion_config)
NewMultiStagesDistillationBox(tables) ==
    /\ box_type = "MultiStagesDistillationBox"
    /\ criterion_config \in tables
    /\ stage_number = 1
    /\ stage_end_epoch = criterion_config[1].end_epoch
    /\ InitFrom(setup(NewBox, criterion_config[1].criterion, 1))

\* unwrapped networks without branches
InitBase ==
    /\ Networks({"Module"}, {"Module"}, {FALSE})
    /\ NewDistillationBox(BoxConfigs)

InitStages ==
    /\ Networks({"Module"}, {"Module"}, {FALSE})
    /\ NewMultiStagesDistillationBox(StageTables)

\* get_distillation_box: a MultiStagesDistillationBox when the config has a
\* stage1 key, a DistillationBox otherwise
Init == InitBase \/ InitStages

\* every wrapping of the two networks, one sub_term at most
InitWrapped ==
    /\ Networks(ModelClasses, ModelClasses, {FALSE})
    /\ NewDistillationBox(WrappedConfigs)

\* networks with a data-dependent branch, either box, one sub_term at most
InitBranching ==
    /\ Networks({"Module"}, {"Module"}, {TRUE})
    /\ \/ NewDistillationBox(WrappedConfigs)
       \/ NewMultiStagesDistillationBox(OneStageTables)

\* stage tables with up to two sub_terms in a stage
InitTwoTerms ==
    /\ Networks({"Module"}, {"Module"}, {FALSE})
    /\ NewMultiStagesDistillationBox(TwoTermsTables)

\* -------------------------------------------------------------- operations
BoxUnchanged == UNCHANGED <<teacher_model, student_model, branching,
                            box_type, constructed, criterion_config, target_module_pairs,
                            target_module_handles, org_criterion, criterion,
                            use_teacher_output>>

\* the observation of a forward call after network n was called
ObsCall(o, n, r) ==
    [o EXCEPT !.called[n] = r.called, !.terminated[n] = r.terminated,
              !.executed[n] = r.executed, !.after_run = r.info]

\* lines 90-102: collect the captured pairs (outcome c) and call self.criterion
ForwardFinish(o, org, c) ==
    [info |-> c.info,
     obs |-> IF c.status # "ok"
             THEN [o EXCEPT !.takes = c.takes, !.status = c.status]
             ELSE [o EXCEPT !.takes = c.takes, !.returned = TRUE,
                            !.output_dict = c.output_dict,
                            !.org_loss_dict = org.dict]]

\* lines 75-102, after both networks returned; org is the outcome of the
\* original-task loss block
ForwardLosses(o, info, org) ==
    IF org.status # "ok"
    THEN [info |-> info, obs |-> [o EXCEPT !.status = org.status, !.org_calls = org.dict]]
    ELSE ForwardFinish([o EXCEPT !.org_calls = org.dict], org,
                       CollectOutputs(info, target_module_pairs, 1, <<>>, <<>>))

\* line 74 onwards; t is the outcome of the teacher call, u of the student call
ForwardAfterStudent(o, t, u) ==
    IF u.terminated
    THEN [info |-> u.info,
          obs |-> [ObsCall(o, "student", u) EXCEPT !.status = "ForwardTerminationException"]]
    ELSE ForwardLosses(ObsCall(o, "student", u), u.info,
                       OrgLoss(u.raw, t.raw, org_criterion, use_teacher_output))

ForwardAfterTeacher(o, t, batch, heads, skipped) ==
    IF t.terminated
    THEN [info |-> t.info, obs |-> [o EXCEPT !.status = "ForwardTerminationException"]]
    ELSE ForwardAfterStudent(o, t, CallModel("student", batch, heads, hooks, t.info,
                                             skipped["student"]))

ForwardStart(o, t, batch, heads, skipped) ==
    ForwardAfterTeacher(ObsCall(o, "teacher", t), t, batch, heads, skipped)

\* DistillationBox.forward(sample_batch, targets): both network calls are
\* bare, so an exception raised by a hook leaves forward at that call
ForwardResult(batch, heads, skipped) ==
    ForwardStart([Obs("forward") EXCEPT !.batch = batch, !.heads = heads],
                 CallModel("teacher", batch, heads, hooks, distillation_box,
                           skipped["teacher"]),
                 batch, heads, skipped)

ApplyForward(r) ==
    /\ distillation_box' = r.info
    /\ last' = r.obs

forward ==
    /\ constructed
    /\ box_type = "DistillationBox"
    /\ \E batch \in Batches, heads \in HeadCounts, skipped \in Branches :
          ApplyForward(ForwardResult(batch, heads, skipped))
    /\ BoxUnchanged
    /\ UNCHANGED <<stage_number, stage_end_epoch, hooks>>

\* MultiStagesDistillationBox.sub_forward: each call catches the exception
\* and leaves None as that network's outputs
SubForwardOutcome(t, u) ==
    [teacher |-> t, student |-> u,
     teacher_outputs |-> t.raw, student_outputs |-> u.raw, info |-> u.info]

SubForwardStudent(t, batch, heads, skipped) ==
    SubForwardOutcome(t, CallModel("student", batch, heads, hooks, t.info,
                                   skipped["student"]))

\* faulty variant: the exception of the teacher call is not caught, the
\* student network is not run
sub_forward_uncaught(batch, heads, skipped) ==
    LET t == CallModel("teacher", batch, heads, hooks, distillation_box, skipped["teacher"])
    IN  IF t.terminated
        THEN SubForwardOutcome(t, [called |-> FALSE, info |-> t.info, executed |-> <<>>,
                                   terminated |-> FALSE, raw |-> NoneOutput])
        ELSE SubForwardStudent(t, batch, heads, skipped)

sub_forward(batch, heads, skipped) ==
    SubForwardStudent(CallModel("teacher", batch, heads, hooks, distillation_box,
                                skipped["teacher"]),
                      batch, heads, skipped)

ms_ForwardAfterSub(o, f) ==
    ForwardLosses(ObsCall(ObsCall(o, "teacher", f.teacher), "student", f.student), f.info,
                  ms_OrgLoss(f.student_outputs, f.teacher_outputs, org_criterion,
                             use_teacher_output))

\* MultiStagesDistillationBox.forward(sample_batch, targets)
ms_ForwardResult(batch, heads, skipped) ==
    ms_ForwardAfterSub([Obs("forward") EXCEPT !.batch = batch, !.heads = heads],
                       sub_forward(batch, heads, skipped))

ms_forward ==
    /\ constructed
    /\ box_type = "MultiStagesDistillationBox"
    /\ \E batch \in Batches, heads \in HeadCounts, skipped \in Branches :
          ApplyForward(ms_ForwardResult(batch, heads, skipped))
    /\ BoxUnchanged
    /\ UNCHANGED <<stage_number, stage_end_epoch, hooks>>

\* DistillationBox.post_process(**kwargs): pass
post_process ==
    /\ constructed
    /\ box_type = "DistillationBox"
    /\ \E epoch \in 1..MaxEpoch : last' = [Obs("post_process") EXCEPT !.epoch = epoch]
    /\ BoxUnchanged
    /\ UNCHANGED <<stage_number, stage_end_epoch, hooks, distillation_box>>

\* faulty variant: only the teacher hooks are removed at teardown
CleanHooksTeacherOnly(hks, handles) == RemoveHandlesTeacherOnly(hks, handles, 1)

\* the loop of DistillationBox.clean_modules
CleanHooks(hks, handles) == RemoveHandles(hks, handles, 1)

\* DistillationBox.clean_modules(), inherited by MultiStagesDistillationBox
clean_modules ==
    /\ constructed
    /\ hooks' = CleanHooks(hooks, target_module_handles)
    /\ last' = Obs("clean_modules")
    /\ BoxUnchanged
    /\ UNCHANGED <<stage_number, stage_end_epoch, distillation_box>>

\* faulty variant: the hooks of the stage that ends are left in place
AdvanceRemoveHooksNone(hks, handles) == hks

\* the loop of advance_to_next_stage, lines 167-169
AdvanceRemoveHooks(hks, handles) == RemoveHandles(hks, handles, 1)

\* faulty variant: a missing stage falls back to the last stage of the table
next_stage_config_clamped(table, number) ==
    IF number \in DOMAIN table THEN [found |-> TRUE, config |-> table[number]]
    ELSE [found |-> TRUE, config |-> table[Len(table)]]

\* self.criterion_config['stage{}'.format(self.stage_number)]
next_stage_config(table, number) ==
    IF number \in DOMAIN table THEN [found |-> TRUE, config |-> table[number]]
    ELSE [found |-> FALSE, config |-> table[1]]

\* faulty variant: the end epoch of the stage that ended is kept
next_stage_end_epoch_stale(current, next_stage) == current

\* self.stage_end_epoch = next_stage_config['end_epoch']
next_stage_end_epoch(current, next_stage) == next_stage.end_epoch

\* lines 173-175; st is what setup left behind
AdvanceAfterSetup(o, number, next, st) ==
    [st |-> st, stage_number |-> number,
     stage_end_epoch |-> IF st.status = "ok"
                         THEN next_stage_end_epoch(stage_end_epoch, next.config)
                         ELSE stage_end_epoch,
     obs |-> [o EXCEPT !.status = st.status]]

\* lines 172-175; st0 is the state once the hooks are removed and
\* stage_number is incremented, next the outcome of the table lookup
AdvanceLookup(o, st0, number, next) ==
    IF ~next.found
    THEN [st |-> st0, stage_number |-> number, stage_end_epoch |-> stage_end_epoch,
          obs |-> [o EXCEPT !.status = "UnknownStageError"]]
    ELSE AdvanceAfterSetup(o, number, next, setup(st0, next.config.criterion, number))

AdvanceRemoved(o, st0) ==
    AdvanceLookup([o EXCEPT !.advanced = TRUE, !.hooks_before_setup = st0.hooks],
                  st0, stage_number + 1,
                  next_stage_config(criterion_config, stage_number + 1))

\* MultiStagesDistillationBox.advance_to_next_stage(), as the values it
\* leaves behind; o is the observation record of the calling operation
AdvanceResult(o) ==
    AdvanceRemoved(o, [BoxState EXCEPT
                         !.hooks = AdvanceRemoveHooks(hooks, target_module_handles)])

ApplyAdvance(r) ==
    /\ target_module_pairs' = r.st.target_module_pairs
    /\ target_module_handles' = r.st.target_module_handles
    /\ org_criterion' = r.st.org_criterion
    /\ criterion' = r.st.criterion
    /\ use_teacher_output' = r.st.use_teacher_output
    /\ hooks' = r.st.hooks
    /\ distillation_box' = r.st.info
    /\ stage_number' = r.stage_number
    /\ stage_end_epoch' = r.stage_end_epoch
    /\ last' = r.obs
    /\ UNCHANGED <<teacher_model, student_model, branching,
                   box_type, constructed, criterion_config>>

advance_to_next_stage ==
    /\ constructed
    /\ box_type = "MultiStagesDistillationBox"
    /\ stage_number < MaxStageNumber
    /\ ApplyAdvance(AdvanceResult(Obs("advance_to_next_stage")))

\* faulty variant: every epoch from the end epoch on ends the stage
at_stage_end_reached(epoch, end_epoch) == epoch >= end_epoch

\* if epoch == self.stage_end_epoch
at_stage_end(epoch, end_epoch) == epoch = end_epoch

\* MultiStagesDistillationBox.post_process(epoch, **kwargs)
ms_post_process ==
    /\ constructed
    /\ box_type = "MultiStagesDistillationBox"
    /\ \E epoch \in 1..MaxEpoch :
          LET o == [Obs("post_process") EXCEPT !.epoch = epoch]
          IN  IF at_stage_end(epoch, stage_end_epoch)
              THEN /\ stage_number < MaxStageNumber
                   /\ ApplyAdvance(AdvanceResult(o))
              ELSE /\ last' = o
                   /\ BoxUnchanged
                   /\ UNCHANGED <<stage_number, stage_end_epoch, hooks, distillation_box>>

NextBase ==
    \/ forward
    \/ post_process
    \/ clean_modules

NextStages ==
    \/ ms_forward
    \/ ms_post_process
    \/ clean_modules
    \/ advance_to_next_stage

Next ==
    \/ forward
    \/ ms_forward
    \/ post_process
    \/ ms_post_process
    \/ clean_modules
    \/ advance_to_next_stage

Spec == Init /\ [][Next]_vars
SpecBase == InitBase /\ [][NextBase]_vars
SpecStages == InitStages /\ [][NextStages]_vars
SpecWrapped == InitWrapped /\ [][NextBase]_vars
SpecBranching == InitBranching /\ [][Next]_vars
SpecTwoTerms == InitTwoTerms /\ [][NextStages]_vars

\* ================================================================== claims
\* ----------------------------------------------------- shared vocabulary
Position(m) == CHOOSE i \in DOMAIN ModuleOrder : ModuleOrder[i] = m
Executed(n, m) == \E i \in 1..Len(last.executed[n]) : last.executed[n][i] = m
TerminalAt(n, m) == \E k \in 1..Len(hooks[n][m]) : hooks[n][m][k].end
HandleLive(h) ==
    \E k \in 1..Len(hooks[h.net][h.module]) :
        hooks[h.net][h.module][k].gen = h.gen /\ hooks[h.net][h.module][k].idx = h.idx
PathOf(e, n) == IF n = "teacher" THEN e.tpath ELSE e.spath
Configured(entries, n, m) == \E i \in 1..Len(entries) : PathOf(entries[i], n) = m
\* the installed pairing configuration, with every entry's two hooks in place
Installed ==
    /\ Len(target_module_handles) = Len(criterion.sub_terms)
    /\ \A i \in 1..Len(target_module_handles) :
          HandleLive(target_module_handles[i][1]) /\ HandleLive(target_module_handles[i][2])
\* the hooks a pairing configuration asks for, in registration order
EntryIndexes(entries, n, m) ==
    SelectSeq([i \in 1..Len(entries) |-> i], LAMBDA i : PathOf(entries[i], n) = m)
ExpectedHooks(entries, gen) ==
    [n \in Nets |-> [m \in Modules |->
        [k \in 1..Len(EntryIndexes(entries, n, m)) |->
            [gen |-> gen, idx |-> EntryIndexes(entries, n, m)[k],
             end |-> entries[EntryIndexes(entries, n, m)[k]].end]]]]
\* the last entry of a configuration that names sub-module m of network n
LastEntryFor(entries, n, m) ==
    entries[CHOOSE i \in 1..Len(entries) :
               /\ PathOf(entries[i], n) = m
               /\ \A j \in 1..Len(entries) : PathOf(entries[j], n) = m => j <= i]
StageEntries(k) == criterion_config[k].criterion.sub_terms
AdvancedOk == last.advanced /\ last.status = "ok"

\* C1: in a DistillationBox, a forward pass in which a terminating hook fired
\* does not end with the early-termination exception: forward goes on to the
\* student network and the exception never reaches the caller.
C1_BaseForwardCatchesTermination ==
    (box_type = "DistillationBox" /\ last.op = "forward"
       /\ \E n \in Nets : last.terminated[n])
    => /\ last.status # "ForwardTerminationException"
       /\ last.called["student"]

\* C2: in a forward pass, a sub-module that carries a terminating hook and was
\* executed has its record's output written with its own output of this batch,
\* and no sub-module after it in the network's execution order was executed.
C2_TerminalStopsNetwork ==
    last.op = "forward" =>
      \A n \in Nets, m \in Modules :
        (TerminalAt(n, m) /\ Executed(n, m))
        => /\ last.after_run[n][m].has_output
           /\ last.after_run[n][m].output = ModuleOutput(n, m, last.batch)
           /\ \A m2 \in Modules : Position(m2) > Position(m) => ~Executed(n, m2)

C2_Witness ==
    /\ last.op = "forward"
    /\ \E n \in Nets :
         /\ TerminalAt(n, ModuleOrder[1])
         /\ Executed(n, ModuleOrder[1])
         /\ last.after_run[n][ModuleOrder[1]].has_output

\* C3: when no installed entry is terminal and every configured path
\* resolves, one forward call pops the output of the teacher path and of the
\* student path of every entry, once each, and no pop fails.
C3_AllOutputsTakenOnce ==
    (/\ last.op = "forward"
     /\ Installed
     /\ \A i \in 1..Len(criterion.sub_terms) : ~criterion.sub_terms[i].end)
    => /\ Len(last.takes) = 2 * Len(criterion.sub_terms)
       /\ \A i \in 1..Len(criterion.sub_terms) :
            /\ last.takes[2 * i - 1] = [idx |-> i, net |-> "teacher",
                                        path |-> criterion.sub_terms[i].tpath, ok |-> TRUE]
            /\ last.takes[2 * i] = [idx |-> i, net |-> "student",
                                    path |-> criterion.sub_terms[i].spath, ok |-> TRUE]

\* C4: advance_to_next_stage has removed every hook before setup registers the
\* first hook of the new stage, hooks of two stages are never registered
\* together, and after a successful advance the registered hooks are exactly
\* those of the new stage's sub_terms.
C4_OldHooksRemovedFirst ==
    /\ last.advanced => last.hooks_before_setup = EmptyHooks
    /\ \A n \in Nets, m \in Modules : \A k \in 1..Len(hooks[n][m]) :
          box_type = "MultiStagesDistillationBox" => hooks[n][m][k].gen = stage_number
    /\ AdvancedOk => hooks = ExpectedHooks(StageEntries(stage_number), stage_number)

C4_Witness ==
    /\ AdvancedOk
    /\ \A i \in 1..Len(StageEntries(stage_number - 1)) :
          CanResolve("teacher", StageEntries(stage_number - 1)[i].tpath)
    /\ \E m \in Modules :
          /\ Configured(StageEntries(stage_number - 1), "teacher", m)
          /\ Configured(StageEntries(stage_number), "teacher", m)
          /\ Len(hooks["teacher"][m]) = 1

\* C5 (as stated): after a successful advance, a sub-module configured in the
\* previous stage but not in the new one has no capture record, and a
\* sub-module configured in the new stage holds the new stage's record.
C5_NoStaleRecord ==
    AdvancedOk =>
      \A n \in Nets, m \in Modules :
        /\ (Configured(StageEntries(stage_number - 1), n, m)
              /\ ~Configured(StageEntries(stage_number), n, m))
           => ~distillation_box[n][m].present
        /\ Configured(StageEntries(stage_number), n, m)
           => /\ distillation_box[n][m].present
              /\ distillation_box[n][m].loss_name
                   = LastEntryFor(StageEntries(stage_number), n, m).loss_name
              /\ distillation_box[n][m].path_from_root = m
              /\ distillation_box[n][m].is_teacher = (n = "teacher")

\* C5 (amended): after a successful advance, a sub-module configured in the
\* new stage holds the new stage's record with no captured output; a
\* sub-module configured only in the previous stage keeps that stage's record
\* but carries no hook.
C5_RecordsAfterAdvance ==
    AdvancedOk =>
      \A n \in Nets, m \in Modules :
        /\ (Configured(StageEntries(stage_number - 1), n, m)
              /\ ~Configured(StageEntries(stage_number), n, m))
           => /\ distillation_box[n][m].present
              /\ distillation_box[n][m].loss_name
                   = LastEntryFor(StageEntries(stage_number - 1), n, m).loss_name
              /\ distillation_box[n][m].path_from_root = m
              /\ distillation_box[n][m].is_teacher = (n = "teacher")
              /\ hooks[n][m] = <<>>
        /\ Configured(StageEntries(stage_number), n, m)
           => /\ distillation_box[n][m].present
              /\ distillation_box[n][m].loss_name
                   = LastEntryFor(StageEntries(stage_number), n, m).loss_name
              /\ distillation_box[n][m].path_from_root = m
              /\ distillation_box[n][m].is_teacher = (n = "teacher")
              /\ ~distillation_box[n][m].has_output
              /\ \A k \in 1..Len(hooks[n][m]) : hooks[n][m][k].gen = stage_number

C5_Witness ==
    /\ AdvancedOk
    /\ \E n1 \in Nets, n2 \in Nets, m1 \in Modules, m2 \in Modules :
         /\ Configured(StageEntries(stage_number - 1), n1, m1)
         /\ Configured(StageEntries(stage_number), n1, m1)
         /\ Configured(StageEntries(stage_number - 1), n2, m2)
         /\ ~Configured(StageEntries(stage_number), n2, m2)

\* C6: after every setup that completed (construction or stage transition) an
\* original-task loss is configured exactly when the configuration given to
\* that setup has an org_term criterion.
C6_OrgLossRederived ==
    ((last.op = "__init__" \/ last.advanced) /\ last.status = "ok")
    => ((org_criterion # "None") <=> (criterion.org_term # "None"))

\* C7: when both networks return a tuple of k heads and the original-task
\* loss takes the teacher output, forward raises nothing while it builds the
\* original-task losses, and a forward that returns has passed the mapping
\* i |-> loss(student head i, teacher head i), i = 0..k-1.
C7_PerHeadOrgLoss ==
    (/\ last.op = "forward"
     /\ last.heads > 0
     /\ use_teacher_output
     /\ \A n \in Nets : last.called[n] /\ ~last.terminated[n])
    => /\ last.status \notin {"ValueError", "TypeError"}
       /\ last.returned =>
            /\ DictKeys(last.org_loss_dict) = 0..(last.heads - 1)
            /\ \A i \in 0..(last.heads - 1) :
                 DictGet(last.org_loss_dict, i)
                   = <<HeadOutput("student", last.batch, i),
                       HeadOutput("teacher", last.batch, i)>>

\* C8: an advance made when stage_number was already the last stage of the
\* table (or beyond it) ends with UnknownStageError and leaves no hook
\* registered.
C8_AdvancePastLastStage ==
    (last.advanced /\ stage_number > Len(criterion_config))
    => /\ last.status = "UnknownStageError"
       /\ hooks = EmptyHooks

C8_Witness ==
    /\ last.op = "post_process"
    /\ last.advanced
    /\ stage_number = Len(criterion_config) + 1
    /\ last.hooks_before_setup = EmptyHooks
    /\ last.status = "UnknownStageError"
    /\ target_module_handles # <<>>

\* the state right after post_process(epoch = stage1.end_epoch) advanced a
\* two-stage box out of stage 1
AfterFirstBoundaryCall ==
    /\ Len(criterion_config) = 2
    /\ last.op = "post_process"
    /\ last.advanced
    /\ stage_number = 2
    /\ last.epoch = criterion_config[1].end_epoch

\* the same call, repeated as the next operation
SecondBoundaryCall == last'.op = "post_process" /\ last'.epoch = last.epoch

C10_CleanLeavesNoHook ==
    last.op = "clean_modules" =>
      /\ hooks = EmptyHooks
      /\ \A n \in Nets, batch \in Batches, heads \in HeadCounts :
           LET r == CallModel(n, batch, heads, hooks, distillation_box, {})
               pristine == CallModel(n, batch, heads, EmptyHooks, EmptyInfo, {})
           IN  /\ r.executed = pristine.executed
               /\ r.terminated = pristine.terminated
               /\ r.raw = pristine.raw
               /\ r.info = distillation_box

C10_Witness ==
    /\ last.op = "clean_modules"
    /\ hooks = EmptyHooks
    /\ \E i \in 1..Len(target_module_handles) : criterion.sub_terms[i].end
    /\ Len(target_module_handles) = Len(criterion.sub_terms)

\* C11: whatever wraps a network (nothing, DataParallel,
\* DistributedDataParallel), construction resolves every configured path
\* against the real root: each configured sub-module that exists in the
\* network holds a capture record and a hook, as for the unwrapped network.
C11_PathsResolvedOnRealRoot ==
    last.op = "__init__" =>
      \A i \in 1..Len(target_module_pairs), n \in Nets :
         LET path == IF n = "teacher" THEN target_module_pairs[i][1]
                     ELSE target_module_pairs[i][2]
         IN  (\A k \in 1..2 : target_module_pairs[i][k] \in Modules) =>
               /\ distillation_box[n][path].present
               /\ hooks[n][path] # <<>>

\* ------------------------------------------- vocabulary of the forward claims
IsForward(box) == box_type = box /\ last.op = "forward"
PairPath(i, n) == IF n = "teacher" THEN target_module_pairs[i][1] ELSE target_module_pairs[i][2]
\* every listed pair names two sub-modules, none of them named by two pairs
PairsWellFormed ==
    /\ \A i \in 1..Len(target_module_pairs), n \in Nets : PairPath(i, n) \in Modules
    /\ \A i, j \in 1..Len(target_module_pairs), n \in Nets :
          PairPath(i, n) = PairPath(j, n) => i = j
\* the capture record of pair i on network n once both networks have run
RecordAfterRun(i, n) == last.after_run[n][PairPath(i, n)]
OrgBlockRaised == last.status \in {"ValueError", "TypeError"}

C13_OneOutputPerEntry ==
    (/\ IsForward("DistillationBox")
     /\ Installed
     /\ ~OrgBlockRaised
     /\ \A i \in 1..Len(criterion.sub_terms), n \in Nets :
           Executed(n, PathOf(criterion.sub_terms[i], n))) =>
      /\ last.returned
      /\ DictKeys(last.output_dict) =
           {criterion.sub_terms[i].loss_name : i \in 1..Len(criterion.sub_terms)}
      /\ \A i \in 1..Len(criterion.sub_terms) :
           LET e == criterion.sub_terms[i]
           IN  DictGet(last.output_dict, e.loss_name) =
                 <<<<e.tpath, ModuleOutput("teacher", e.tpath, last.batch)>>,
                   <<e.spath, ModuleOutput("student", e.spath, last.batch)>>>>

\* org_criterion was called in the last forward pass
OrgInvoked == last.org_calls # <<>>
BothUsable == \A n \in Nets : last.called[n] /\ ~last.terminated[n]

\* C14: in a forward pass, org_criterion is called only when an
\* original-task loss is configured and neither network's output is None
\* (both networks ran to their end), and it is called in that case unless
\* the original-task block raised; None is never among its arguments; and
\* without a configured org_term the org_loss_dict passed on is empty.
C14_OrgLossOnlyOnUsableOutputs ==
    last.op = "forward" =>
      /\ OrgInvoked => (org_criterion # "None" /\ BothUsable)
      /\ (org_criterion # "None" /\ BothUsable /\ ~OrgBlockRaised) => OrgInvoked
      /\ \A i \in 1..Len(last.org_calls) :
            \A k \in 1..Len(last.org_calls[i].val) :
               last.org_calls[i].val[k] # NoneTensor
      /\ criterion.org_term = "None" => last.org_loss_dict = <<>>

\* C15: a forward pass in which a configured sub-module was not executed
\* does not return a loss, and every output in the output_dict a forward pass
\* returns with was captured in that same pass (from its sample_batch).
C15_NoOutputOfEarlierPass ==
    last.op = "forward" =>
      /\ (\E i \in 1..Len(target_module_pairs), n \in Nets :
             PairPath(i, n) \in Modules /\ ~Executed(n, PairPath(i, n)))
         => ~last.returned
      /\ last.returned =>
           \A i \in 1..Len(last.output_dict), k \in 1..2 :
              last.output_dict[i].val[k][2].batch = last.batch

\* sub-module m of network n was executed in the forward pass observed in o
ExecutedIn(o, n, m) == \E i \in 1..Len(o.executed[n]) : o.executed[n][i] = m

\* C16: no hook writes into a capture record that still holds an output: in
\* every forward pass (also after passes that ended in an error), each
\* sub-module that is executed with a hook on it had a record without an
\* output when the pass began.
C16_NoWriteOverUnreadOutput ==
    [][last'.op = "forward" =>
         \A n \in Nets, m \in Modules :
            (ExecutedIn(last', n, m) /\ hooks[n][m] # <<>>) =>
               ~distillation_box[n][m].has_output]_vars

\* the steps of the frame claims
StageState == <<stage_number, stage_end_epoch>>
QuietCall ==
    \/ last'.op \in {"forward", "clean_modules"}
    \/ last'.op = "post_process" /\ last'.epoch # stage_end_epoch
StageStateStep ==
    /\ stage_number' >= stage_number
    /\ StageState' # StageState => last'.advanced
    /\ last'.advanced => stage_number' = stage_number + 1
BaseBoxFields == <<box_type, constructed, criterion_config, stage_number, stage_end_epoch,
                   target_module_pairs, target_module_handles, org_criterion, criterion,
                   use_teacher_output, hooks, distillation_box>>
BasePostProcessStep ==
    (box_type = "DistillationBox" /\ last'.op = "post_process") => UNCHANGED BaseBoxFields
StageStateStarts ==
    box_type = "MultiStagesDistillationBox" =>
       (last.op = "__init__" => StageState = <<1, criterion_config[1].end_epoch>>)

\* C17 as claimed: the stage state starts at (1, stage1.end_epoch), only
\* advance_to_next_stage changes it, stage_number never decreases and grows
\* by one per advance; forward, clean_modules and post_process(epoch) with
\* epoch # stage_end_epoch change neither the stage state nor the registered
\* hooks; post_process of a DistillationBox changes nothing.
C17_QuietCallsKeepHooks ==
    [](StageStateStarts) /\
    [][/\ StageStateStep
       /\ QuietCall => (UNCHANGED StageState /\ UNCHANGED hooks)
       /\ BasePostProcessStep]_vars

\* C17, amended: as above, but clean_modules is only required to leave the
\* stage state unchanged (it removes the registered hooks); forward and
\* post_process(epoch) with epoch # stage_end_epoch leave the hooks as well.
C17_StageStateFrame ==
    [](StageStateStarts) /\
    [][/\ StageStateStep
       /\ QuietCall => UNCHANGED StageState
       /\ (QuietCall /\ last'.op # "clean_modules") => UNCHANGED hooks
       /\ BasePostProcessStep]_vars

\* post_process(epoch) with epoch # stage_end_epoch was called in stage 2,
\* reached by an advance
C17_Witness ==
    /\ box_type = "MultiStagesDistillationBox"
    /\ stage_number = 2
    /\ last.op = "post_process"
    /\ ~last.advanced
    /\ last.epoch # stage_end_epoch
    /\ Installed
    /\ criterion.sub_terms # <<>>

\* C18: in every state, also after an operation that failed, every hook
\* registered on a sub-module of either network has its handle in
\* target_module_handles, so clean_modules removes them all.
C18_EveryHookHasHandle ==
    /\ \A n \in Nets, m \in Modules :
          \A k \in 1..Len(hooks[n][m]) :
             \E i \in 1..Len(target_module_handles), j \in 1..2 :
                target_module_handles[i][j] =
                   Handle(n, m, hooks[n][m][k].gen, hooks[n][m][k].idx)
    /\ CleanHooks(hooks, target_module_handles) = EmptyHooks

\* an advance whose setup failed at its second sub_term: the hooks of the
\* first sub_term are registered
C18_Witness ==
    /\ last.advanced
    /\ last.status = "PathResolutionError"
    /\ hooks # EmptyHooks
    /\ last.hooks_before_setup = EmptyHooks

\* C19: in every state of a constructed MultiStagesDistillationBox, also
\* after a failed advance_to_next_stage, stage_number is a stage of the
\* table, stage_end_epoch is that stage's end_epoch, and the criterion and
\* the listed path pairs are those of that stage's config.
C19_StageStateNamesInstalledStage ==
    (box_type = "MultiStagesDistillationBox" /\ constructed) =>
      /\ stage_number \in DOMAIN criterion_config
      /\ stage_end_epoch = criterion_config[stage_number].end_epoch
      /\ criterion = criterion_config[stage_number].criterion
      /\ target_module_pairs =
           [i \in 1..Len(StageEntries(stage_number)) |->
               <<StageEntries(stage_number)[i].tpath, StageEntries(stage_number)[i].spath>>]

\* C20: in every state of a constructed box, also after a setup that
\* aborted, target_module_pairs and target_module_handles have the same
\* length and the i-th handle pair is that of the hooks registered on the
\* sub-modules of the i-th path pair.
C20_HandlesMatchPairs ==
    constructed =>
      /\ Len(target_module_pairs) = Len(target_module_handles)
      /\ \A i \in 1..Len(target_module_handles), n \in Nets :
            LET h == target_module_handles[i][IF n = "teacher" THEN 1 ELSE 2]
            IN  /\ i <= Len(target_module_pairs)
                /\ h.net = n
                /\ h.idx = i
                /\ h.module = PairPath(i, n)

====
